---- MODULE Spec2Model ----
(***************************************************************************)
(* Budget-tracking pipeline of the personal finance backend.               *)
(*                                                                         *)
(* The API process writes Transaction rows (create_transaction,            *)
(* update_transaction) and Budget rows (create_budget), publishes the      *)
(* written transaction as a JSON event on the topic                        *)
(* "create_transaction_topic", and the consumer thread reconciles every    *)
(* delivered event against the budgets (budget_tracker), keeping the       *)
(* budget_expenses ledger.                                                 *)
(*                                                                         *)
(* Abstractions: Float amounts are integers in the smallest unit, added    *)
(* with the rounding of a float of MantissaBits significant bits; a        *)
(* DateTime is a record [day, tod] (calendar day, time of day) ordered     *)
(* lexicographically; the description column is a string the pipeline      *)
(* carries and never reads; SQL NULL / Python None for a subcategory id is *)
(* the value 0 (ids start at 1, and the code only tests truthiness).       *)
(***************************************************************************)
EXTENDS Integers, Sequences, FiniteSets, TLC

VARIABLES
    transactions,     \* table transactions: sequence of rows, row i has id i
    budgets,          \* table budgets: sequence of rows, row i has id i
    budget_expenses,  \* table budget_expenses (the ledger): sequence of rows
    topic,            \* the Kafka topic: every message sent, in order
    offset,           \* number of messages of the topic already handed to a consumer
    wpc,              \* per consumer: "poll" | "write" | "dead" | "exit" (its process exited)
    wlocal,           \* per consumer: locals of budget_tracker between its reads and its write
    response,         \* what the view of the last API call returned (its dict)
    matched,          \* history: per budget, the amounts of the processed events matching it
    rival,            \* history: per budget, whether such an event also matched another budget
    last,             \* history: the previous reconciliation step
    ideal,            \* history: no redelivery, lost publish or late budget so far
    categories,       \* tables income_categories, expense_categories, expense_subcategories: id -> name
    cache_categories, \* the CacheCategories object: its three dicts
    startup,          \* whether startup_event has run, and the query of its load that raised (0: none)
    users             \* table users: sequence of rows, row i has id i

vars == <<transactions, budgets, budget_expenses, topic, offset, wpc, wlocal,
          response, matched, rival, last, ideal, categories, cache_categories, startup,
          users>>

----------------------------------------------------------------------------
(* Bounds of the model *)

MaxBudgets == 2

MaxTransactions == 1

MaxTopic == 2

MaxCategories == 3

MaxUsers == 2

\* significant bits of a Float amount (the 53 of a double, scaled down)
MantissaBits == 11

(* Input domains *)

Users == {1, 2}

Categories == {1, 2}

SubCategories == {0, 1}

TransactionTypes == {2}

Amounts == {-1, 2}

BudgetAmounts == {2}

DT(d, t) == [day |-> d, tod |-> t]

BudgetStarts == {DT(2, 0)}

BudgetEnds == {DT(3, 0)}

TransactionDates == {DT(2, 0)}

Descriptions == {"lunch"}

Workers == {1, 2}

----------------------------------------------------------------------------
(* Values *)

\* datetime comparison a <= b
DateLeq(a, b) == a.day < b.day \/ (a.day = b.day /\ a.tod <= b.tod)

\* datetime.isoformat(), as jsonable_encoder renders a datetime: a string
isoformat(d) == [iso |-> <<d.day, d.tod>>]

\* the store's coercion of a bound parameter to a timestamp: a datetime is
\* taken as it is, an ISO-8601 string is parsed
ToTimestamp(x) == IF "iso" \in DOMAIN x THEN DT(x.iso[1], x.iso[2]) ELSE x

\* json null / Python None as a message value
NullMsg == [null |-> TRUE]

IsNull(m) == "null" \in DOMAIN m

\* jsonable_encoder(db_transaction): the loaded columns of the row with the
\* datetime rendered as a string; None stays None
jsonable_encoder(row) ==
    IF IsNull(row) THEN NullMsg
    ELSE [row EXCEPT !.transaction_date = isoformat(row.transaction_date)]

\* Transaction(**message): every key becomes an attribute, values untouched
\* (the date stays a string); a None message cannot be unpacked
CanBuildTransaction(message) == ~IsNull(message)

RECURSIVE Pow2(_)
Pow2(n) == IF n = 0 THEN 1 ELSE 2 * Pow2(n - 1)

Abs(x) == IF x < 0 THEN -x ELSE x

\* the gap between neighbouring Float values around x: 1 while x fits the
\* significant bits, doubling with every further bit
RECURSIVE Spacing(_, _)
Spacing(x, gap) ==
    IF Abs(x) < Pow2(MantissaBits) * gap THEN gap ELSE Spacing(x, 2 * gap)

\* the Float nearest to the number x, ties to the even neighbour
FloatRound(x) ==
    LET gap == Spacing(x, 1)
        q == Abs(x) \div gap
        r == Abs(x) % gap
        up == 2 * r > gap \/ (2 * r = gap /\ q % 2 = 1)
        m == (IF up THEN q + 1 ELSE q) * gap
    IN IF x < 0 THEN -m ELSE m

\* a + b on Python floats (Column(Float) values): the sum, rounded
FloatAdd(a, b) == FloatRound(a + b)

RECURSIVE SumSeq(_)
SumSeq(s) == IF s = <<>> THEN 0 ELSE s[1] + SumSeq(Tail(s))

----------------------------------------------------------------------------
(* Budget store queries (src/budget/services.py) *)

\* a check_budget that would not compare the category
BudgetFilter_NoCategory(b, trasaction) ==
    /\ b.user_id = trasaction.user_id
    /\ DateLeq(b.start_date, ToTimestamp(trasaction.transaction_date))
    /\ DateLeq(ToTimestamp(trasaction.transaction_date), b.end_date)

\* a check_budget whose range would exclude the end date
BudgetFilter_ExclusiveEnd(b, trasaction) ==
    /\ b.user_id = trasaction.user_id
    /\ b.transaction_type_category_id = trasaction.transaction_type_category_id
    /\ DateLeq(b.start_date, ToTimestamp(trasaction.transaction_date))
    /\ DateLeq(ToTimestamp(trasaction.transaction_date), b.end_date)
    /\ ToTimestamp(trasaction.transaction_date) # b.end_date

\* a check_budget that would not compare the owner
BudgetFilter_NoOwner(b, trasaction) ==
    /\ b.transaction_type_category_id = trasaction.transaction_type_category_id
    /\ DateLeq(b.start_date, ToTimestamp(trasaction.transaction_date))
    /\ DateLeq(ToTimestamp(trasaction.transaction_date), b.end_date)

\* the filter of check_budget, for one budget row
BudgetFilter(b, trasaction) ==
    /\ b.user_id = trasaction.user_id
    /\ b.transaction_type_category_id = trasaction.transaction_type_category_id
    /\ DateLeq(b.start_date, ToTimestamp(trasaction.transaction_date))
    /\ DateLeq(ToTimestamp(trasaction.transaction_date), b.end_date)

\* check_budget: the ids of the rows .first() may return (the query has no
\* ORDER BY, so any row passing the filter); empty when it returns None
check_budget(trasaction) ==
    {i \in 1..Len(budgets) : BudgetFilter(budgets[i], trasaction)}

\* the filter of check_budget_expense, for one ledger row.  The subcategory
\* condition is written on Budget, not BudgetExpense: the query joins the
\* budgets table and the condition holds when some budget has that subcategory
BudgetExpenseFilter(e, budget) ==
    /\ e.budget_id = budget.id
    /\ (budget.transaction_type_category_id # 0
          => e.transaction_type_category_id = budget.transaction_type_category_id)
    /\ (budget.transaction_type_subcategory_id # 0
          => \E j \in 1..Len(budgets) :
                budgets[j].transaction_type_subcategory_id
                  = budget.transaction_type_subcategory_id)

\* check_budget_expense: the ids of the ledger rows .first() may return
check_budget_expense(budget) ==
    {k \in 1..Len(budget_expenses) : BudgetExpenseFilter(budget_expenses[k], budget)}

\* an update_budget_expense that would address the ledger row by its own id
update_budget_expense_ById(rows, data) ==
    [k \in 1..Len(rows) |->
        IF rows[k].id = data.budget_id
        THEN [rows[k] EXCEPT !.amount_spent = data.amount_spent]
        ELSE rows[k]]

\* update_budget_expense: UPDATE budget_expenses SET amount_spent = ...
\* WHERE budget_id = data.budget_id, on the table `rows`
update_budget_expense(rows, data) ==
    [k \in 1..Len(rows) |->
        IF rows[k].budget_id = data.budget_id
        THEN [rows[k] EXCEPT !.amount_spent = data.amount_spent]
        ELSE rows[k]]

\* create_budget_expense: INSERT of one ledger row
create_budget_expense(rows, data) ==
    Append(rows, [id |-> Len(rows) + 1,
                  budget_id |-> data.budget_id,
                  transaction_type_category_id |-> data.transaction_type_category_id,
                  transaction_type_subcategory_id |-> data.transaction_type_subcategory_id,
                  amount_spent |-> data.amount_spent])

\* a new ledger row that would not carry the budget's subcategory
NewExpenseData_NoSubcategory(budget, trasaction) ==
    [budget_id |-> budget.id,
     transaction_type_category_id |-> budget.transaction_type_category_id,
     transaction_type_subcategory_id |-> 0,
     amount_spent |-> trasaction.amount]

\* the data dict budget_tracker builds for a new ledger row
NewExpenseData(budget, trasaction) ==
    [budget_id |-> budget.id,
     transaction_type_category_id |-> budget.transaction_type_category_id,
     transaction_type_subcategory_id |->
        IF budget.transaction_type_subcategory_id # 0
        THEN budget.transaction_type_subcategory_id ELSE 0,
     amount_spent |-> trasaction.amount]

\* an update that would store the transaction's amount instead of adding it
UpdateExpenseData_Overwrite(budget, expense_amount, trasaction) ==
    [budget_id |-> budget.id, amount_spent |-> trasaction.amount]

\* the data dict budget_tracker builds for an existing ledger row
UpdateExpenseData(budget, expense_amount, trasaction) ==
    [budget_id |-> budget.id, amount_spent |-> FloatAdd(expense_amount, trasaction.amount)]

\* the write of budget_tracker, given what its reads returned: bid = 0 when
\* check_budget returned None, found = FALSE when check_budget_expense did
TrackerWrite(rows, trasaction, bid, found, expense_amount) ==
    IF bid = 0 THEN rows
    ELSE IF found
         THEN update_budget_expense(rows,
                 UpdateExpenseData(budgets[bid], expense_amount, trasaction))
         ELSE create_budget_expense(rows, NewExpenseData(budgets[bid], trasaction))

\* the consumer loop over the events in turn, single consumer, from the
\* ledger table `rows`: budget_tracker for each event; the table at the end.
\* (For stores where check_budget and check_budget_expense have one answer.)
RECURSIVE Reconcile(_, _)
Reconcile(rows, events) ==
    IF events = <<>> THEN rows
    ELSE LET trasaction == events[1]
             bid == IF check_budget(trasaction) = {} THEN 0
                    ELSE CHOOSE i \in check_budget(trasaction) : TRUE
             found == IF bid = 0 THEN {}
                      ELSE {k \in 1..Len(rows) : BudgetExpenseFilter(rows[k], budgets[bid])}
             eid == IF found = {} THEN 0 ELSE CHOOSE k \in found : TRUE
         IN Reconcile(TrackerWrite(rows, trasaction, bid, eid # 0,
                                   IF eid = 0 THEN 0 ELSE rows[eid].amount_spent),
                      Tail(events))

----------------------------------------------------------------------------
(* History variables *)

\* the match of the specification: same owner, same category, date in range
Matches(b, t) ==
    /\ b.user_id = t.user_id
    /\ b.transaction_type_category_id = t.transaction_type_category_id
    /\ DateLeq(b.start_date, ToTimestamp(t.transaction_date))
    /\ DateLeq(ToTimestamp(t.transaction_date), b.end_date)

MatchingBudgets(t) == {i \in 1..Len(budgets) : Matches(budgets[i], t)}

NoStep == [budget |-> 0, before |-> 0]

NoLocals == [trasaction |-> NullMsg, budget |-> 0, found |-> FALSE, before |-> 0]

\* matched' and rival' after an event for transaction t was processed
NoteProcessed(t) ==
    /\ matched' = [i \in 1..Len(budgets) |->
                     IF i \in MatchingBudgets(t)
                     THEN Append(matched[i], t.amount) ELSE matched[i]]
    /\ rival' = [i \in 1..Len(budgets) |->
                     rival[i] \/ (i \in MatchingBudgets(t)
                                    /\ Cardinality(MatchingBudgets(t)) > 1)]

\* the category tables the model starts from
SeedCategories ==
    [income_categories |-> (1 :> "Salary"),
     expense_categories |-> (1 :> "Food" @@ 2 :> "Rent"),
     expense_subcategories |-> (1 :> "Groceries")]

\* CacheCategories.__init__: three empty dicts
EmptyCache ==
    [income_categories |-> <<>>, expense_categories |-> <<>>,
     expense_sub_categories |-> <<>>]

\* for obj in queryset: d[obj.id] = obj.name, on the dict d
DictUpdate(d, queryset) ==
    [i \in (DOMAIN d) \cup (DOMAIN queryset) |->
        IF i \in DOMAIN queryset THEN queryset[i] ELSE d[i]]

\* a load whose failing query would still fill its dict
load_categories_FillsFailed(cache, tables, failed_query) ==
    LET ran(k) == failed_query = 0 \/ k <= failed_query
    IN [income_categories |->
            IF ran(1) THEN DictUpdate(cache.income_categories, tables.income_categories)
            ELSE cache.income_categories,
        expense_categories |->
            IF ran(2) THEN DictUpdate(cache.expense_categories, tables.expense_categories)
            ELSE cache.expense_categories,
        expense_sub_categories |->
            IF ran(3) THEN DictUpdate(cache.expense_sub_categories, tables.expense_subcategories)
            ELSE cache.expense_sub_categories]

\* load_categories(db) on the cache object `cache`: three queries in turn,
\* each followed by the update of its dict; failed_query is the query that
\* raises (1, 2 or 3; 0 when none does), which ends the load there
load_categories(cache, tables, failed_query) ==
    LET ran(k) == failed_query = 0 \/ k < failed_query
    IN [income_categories |->
            IF ran(1) THEN DictUpdate(cache.income_categories, tables.income_categories)
            ELSE cache.income_categories,
        expense_categories |->
            IF ran(2) THEN DictUpdate(cache.expense_categories, tables.expense_categories)
            ELSE cache.expense_categories,
        expense_sub_categories |->
            IF ran(3) THEN DictUpdate(cache.expense_sub_categories, tables.expense_subcategories)
            ELSE cache.expense_sub_categories]

\* Python's None where a name is expected
PyNone == "None"

\* dict.get(key): the value, or None when the key is absent
DictGet(d, key) == IF key \in DOMAIN d THEN d[key] ELSE PyNone

\* the state of the application once startup_event has run with the store up
Started == [done |-> TRUE, failed_query |-> 0]

\* no API call has returned yet
NoResponse == [status |-> "none"]

\* what every view returns from its `except Exception as exe` branch
ViewError(exe) == [status |-> "error", message |-> exe]

----------------------------------------------------------------------------
Init ==
    /\ transactions = <<>>
    /\ budgets = <<>>
    /\ budget_expenses = <<>>
    /\ topic = <<>>
    /\ offset = 0
    /\ wpc = [w \in Workers |-> "poll"]
    /\ wlocal = [w \in Workers |-> NoLocals]
    /\ response = NoResponse
    /\ matched = <<>>
    /\ rival = <<>>
    /\ last = NoStep
    /\ ideal = TRUE
    /\ categories = SeedCategories
    /\ cache_categories = load_categories(EmptyCache, SeedCategories, 0)
    /\ startup = Started
    /\ users = <<>>

----------------------------------------------------------------------------
(* API process *)

\* create_budget(data, user_id, db)
create_budget(data, user_id) ==
    /\ Len(budgets) < MaxBudgets
    /\ budgets' = Append(budgets,
          [id |-> Len(budgets) + 1,
           user_id |-> user_id,
           transaction_type_category_id |-> data.transaction_type_category_id,
           transaction_type_subcategory_id |-> data.transaction_type_subcategory_id,
           amount |-> data.amount,
           start_date |-> data.start_date,
           end_date |-> data.end_date])
    /\ matched' = Append(matched, <<>>)
    /\ rival' = Append(rival, FALSE)
    /\ ideal' = (ideal /\ transactions = <<>>)
    /\ response' = [status |-> "success"]
    /\ UNCHANGED <<users, categories, cache_categories, startup, transactions, budget_expenses, topic, offset, wpc, wlocal, last>>

\* update_budget(data, budget_id, user_id, db): UPDATE budgets SET the fields
\* the client sent WHERE id = budget_id AND user_id = user_id, and commit.
\* The ledger rows of the budget are not touched
update_budget(update_data, budget_id, user_id) ==
    /\ budgets' = [i \in 1..Len(budgets) |->
                     IF budgets[i].id = budget_id /\ budgets[i].user_id = user_id
                     THEN [f \in DOMAIN budgets[i] |->
                             IF f \in DOMAIN update_data THEN update_data[f]
                             ELSE budgets[i][f]]
                     ELSE budgets[i]]
    /\ ideal' = FALSE
    /\ response' = [status |-> "success"]
    /\ UNCHANGED <<users, categories, cache_categories, startup, transactions,
                   budget_expenses, topic, offset, wpc, wlocal, matched, rival, last>>

\* KafkaProducerWrapper(...).send_message(topic, message): the message is
\* appended to the topic when the broker is reachable; when it is not, the
\* producer cannot be built and the call raises
send_message(message, broker_up) ==
    IF broker_up THEN Append(topic, message) ELSE topic

\* a SQLAlchemy session on the table `rows`: what is committed, and what the
\* open transaction of the session sees
Session(rows) == [committed |-> rows, working |-> rows]

\* db.add(row) (flushed with the next commit)
db_add(session, row) == [session EXCEPT !.working = Append(@, row)]

\* db.commit()
db_commit(session) == [session EXCEPT !.committed = session.working]

\* db.close(), which get_db runs when the request ends, normally or by an
\* exception: what was not committed is rolled back
db_close(session) == [session EXCEPT !.working = session.committed]

\* the row create_transaction builds; the store assigns the next id
NewTransaction(rows, data, user_id) ==
    [id |-> Len(rows) + 1,
     user_id |-> user_id,
     transaction_type_id |-> data.transaction_type_id,
     transaction_type_category_id |-> data.transaction_type_category_id,
     transaction_type_subcategory_id |-> data.transaction_type_subcategory_id,
     amount |-> data.amount,
     description |-> data.description,
     transaction_date |-> data.transaction_date]

\* a create_transaction that would publish before it commits: the exception
\* of a failed publish would skip the commit
CreateWrite_PublishFirst(rows, db_transaction, broker_up) ==
    IF broker_up
    THEN db_close(db_commit(db_add(Session(rows), db_transaction))).committed
    ELSE db_close(db_add(Session(rows), db_transaction)).committed

\* the transactions table after create_transaction: add, commit and refresh
\* run before the producer is built, so they run whether or not the publish
\* raises; then the request's session is closed
CreateWrite(rows, db_transaction, broker_up) ==
    db_close(db_commit(db_add(Session(rows), db_transaction))).committed

\* create_transaction(data, user_id, db): add, commit, refresh, then publish
create_transaction(data, user_id, broker_up) ==
    /\ Len(transactions) < MaxTransactions
    /\ Len(topic) < MaxTopic
    /\ LET db_transaction == NewTransaction(transactions, data, user_id)
       IN /\ transactions' = CreateWrite(transactions, db_transaction, broker_up)
          /\ topic' = send_message(jsonable_encoder(db_transaction), broker_up)
    /\ response' = IF broker_up
                   THEN [status |-> "success", id |-> Len(transactions) + 1]
                   ELSE ViewError("NoBrokersAvailable")
    /\ ideal' = (ideal /\ broker_up)
    /\ UNCHANGED <<users, categories, cache_categories, startup, budgets, budget_expenses, offset, wpc, wlocal, matched, rival, last>>

\* db.query(Transaction).filter(id == transaction_id, user_id == user_id)
\*   .update(update_data), inside the session's open transaction
db_update(session, update_data, transaction_id, user_id) ==
    [session EXCEPT !.working =
        [i \in 1..Len(@) |->
            IF @[i].id = transaction_id /\ @[i].user_id = user_id
            THEN [f \in DOMAIN @[i] |->
                    IF f \in DOMAIN update_data THEN update_data[f] ELSE @[i][f]]
            ELSE @[i]]]

\* the transactions table after update_transaction: update and commit run
\* before the row is read back and published
UpdateWrite(rows, update_data, transaction_id, user_id, broker_up) ==
    db_close(db_commit(db_update(Session(rows), update_data, transaction_id, user_id))).committed

\* db.query(Transaction).filter(id == transaction_id, user_id == user_id).first()
\* on the table `rows`
FirstTransaction(rows, transaction_id, user_id) ==
    IF \E i \in 1..Len(rows) : rows[i].id = transaction_id /\ rows[i].user_id = user_id
    THEN rows[transaction_id]
    ELSE NullMsg

\* update_transaction(data, transaction_id, user_id, db): update, commit,
\* read the row back, publish what was read (None when no row matched)
update_transaction(update_data, transaction_id, user_id, broker_up) ==
    /\ Len(topic) < MaxTopic
    /\ transactions' = UpdateWrite(transactions, update_data, transaction_id, user_id, broker_up)
    /\ topic' = send_message(
                   jsonable_encoder(FirstTransaction(transactions', transaction_id, user_id)),
                   broker_up)
    /\ response' = IF broker_up
                   THEN [status |-> "success"]
                   ELSE ViewError("NoBrokersAvailable")
    /\ ideal' = (ideal /\ broker_up)
    /\ UNCHANGED <<users, categories, cache_categories, startup, budgets, budget_expenses, offset, wpc, wlocal, matched, rival, last>>

\* db.query(<table>.<name>).filter(<table>.id == id).scalar(): the name, or
\* None when the table has no such row
scalar(table, id) == IF id \in DOMAIN table THEN table[id] ELSE PyNone

\* (amount_spent_so_far / budget.amount) * 100, for budget.amount # 0.  The
\* amounts of the model are chosen so that the quotient is a whole number
\* and the float result is exactly that number
Percentage(amount_spent_so_far, amount) == (amount_spent_so_far * 100) \div amount

\* an alert whose default message would last up to 90%
Alert_DefaultUpTo90(percentage, transaction_type_category, transaction_type_subcategory) ==
    IF percentage > 90
    THEN [text |-> "You have spent {percentage}% of your budget for {transaction_type_category} this month!",
          percentage |-> percentage,
          transaction_type_category |-> transaction_type_category]
    ELSE [text |-> "You have spent {percentage}% of your budget for {transaction_type_category} {transaction_type_subcategory} this month!",
          percentage |-> percentage,
          transaction_type_category |-> transaction_type_category,
          transaction_type_subcategory |-> transaction_type_subcategory]

\* the alert of budget_status: the f-string that is kept, with the values
\* it interpolates.  The chain is if > 80 / elif > 90 / elif > 100
Alert(percentage, transaction_type_category, transaction_type_subcategory) ==
    LET default ==
           [text |-> "You have spent {percentage}% of your budget for {transaction_type_category} {transaction_type_subcategory} this month!",
            percentage |-> percentage,
            transaction_type_category |-> transaction_type_category,
            transaction_type_subcategory |-> transaction_type_subcategory]
        spent ==
           [text |-> "You have spent {percentage}% of your budget for {transaction_type_category} this month!",
            percentage |-> percentage,
            transaction_type_category |-> transaction_type_category]
        exceeded ==
           [text |-> "You have exceeded your budget limit for {transaction_type_category} this month!",
            transaction_type_category |-> transaction_type_category]
    IN IF percentage > 80 THEN spent
       ELSE IF percentage > 90 THEN spent
       ELSE IF percentage > 100 THEN exceeded
       ELSE default

\* a report whose amount_remaining would be clamped at zero
StatusReport_Clamped(budget, eid) ==
    LET amount_spent_so_far == IF eid # 0 THEN budget_expenses[eid].amount_spent ELSE 0
        amount_remaining == IF budget.amount - amount_spent_so_far < 0 THEN 0
                            ELSE budget.amount - amount_spent_so_far
        percentage == Percentage(amount_spent_so_far, budget.amount)
        transaction_type_category ==
            scalar(categories.expense_categories, budget.transaction_type_category_id)
        transaction_type_subcategory ==
            IF budget.transaction_type_subcategory_id # 0
            THEN scalar(categories.expense_subcategories,
                        budget.transaction_type_subcategory_id)
            ELSE ""
    IN [transaction_type_category |-> transaction_type_category,
        transaction_type_subcategory |-> transaction_type_subcategory,
        amount |-> budget.amount,
        amount_spent |-> amount_spent_so_far,
        amount_remaining |-> amount_remaining,
        percentage |-> percentage,
        alert |-> Alert(percentage, transaction_type_category,
                        transaction_type_subcategory)]

\* the dict budget_status returns for the row `budget`, when
\* check_budget_expense returned ledger row eid (0: None)
StatusReport(budget, eid) ==
    LET amount_spent_so_far == IF eid # 0 THEN budget_expenses[eid].amount_spent ELSE 0
        amount_remaining == budget.amount - amount_spent_so_far
        percentage == Percentage(amount_spent_so_far, budget.amount)
        transaction_type_category ==
            scalar(categories.expense_categories, budget.transaction_type_category_id)
        transaction_type_subcategory ==
            IF budget.transaction_type_subcategory_id # 0
            THEN scalar(categories.expense_subcategories,
                        budget.transaction_type_subcategory_id)
            ELSE ""
    IN [transaction_type_category |-> transaction_type_category,
        transaction_type_subcategory |-> transaction_type_subcategory,
        amount |-> budget.amount,
        amount_spent |-> amount_spent_so_far,
        amount_remaining |-> amount_remaining,
        percentage |-> percentage,
        alert |-> Alert(percentage, transaction_type_category,
                        transaction_type_subcategory)]

\* db.query(Budget).filter(Budget.id == budget_id, Budget.user_id == user_id)
\*   .first(): the id of the row, 0 for None
OwnedBudget(budget_id, user_id) ==
    IF \E i \in 1..Len(budgets) : budgets[i].id = budget_id /\ budgets[i].user_id = user_id
    THEN budget_id
    ELSE 0

Raised(result) == "exception" \in DOMAIN result

\* a budget_status whose division by zero would yield a number
budget_status_ZeroPercent(budget_id, user_id) ==
    LET bid == OwnedBudget(budget_id, user_id)
    IN IF bid = 0
       THEN {[exception |-> "UnboundLocalError"]}
       ELSE IF budgets[bid].amount = 0
       THEN {[value |-> [amount |-> 0, amount_spent |-> 0, amount_remaining |-> 0,
                         percentage |-> 0]]}
       ELSE {[value |-> StatusReport(budgets[bid], eid)] :
                eid \in (IF check_budget_expense(budgets[bid]) = {}
                         THEN {0} ELSE check_budget_expense(budgets[bid]))}

\* budget_status(budget_id, user_id, db): what the call can end in, either
\* [value |-> the dict] or [exception |-> the class raised].  With no budget
\* the `if budget:` block is skipped and the return statement reads locals
\* that were never bound; with budget.amount = 0 the division raises
budget_status(budget_id, user_id) ==
    LET bid == OwnedBudget(budget_id, user_id)
    IN IF bid = 0
       THEN {[exception |-> "UnboundLocalError"]}
       ELSE IF budgets[bid].amount = 0
       THEN {[exception |-> "ZeroDivisionError"]}
       ELSE {[value |-> StatusReport(budgets[bid], eid)] :
                eid \in (IF check_budget_expense(budgets[bid]) = {}
                         THEN {0} ELSE check_budget_expense(budgets[bid]))}

\* a view's try/except around a service call that ended in `result`; the
\* views of the budget reads add which view answered
ViewResponse(result) ==
    IF Raised(result) THEN ViewError(result.exception)
    ELSE [status |-> "success", data |-> result.value]

\* GET /status/{budget_id}
status_of_budget(budget_id, user_id) ==
    /\ \E result \in budget_status(budget_id, user_id) :
          response' = [view |-> "status_of_budget"] @@ ViewResponse(result)
    /\ UNCHANGED <<users, transactions, budgets, budget_expenses, topic, offset, wpc, wlocal,
                   matched, rival, last, ideal, categories, cache_categories, startup>>

\* the calendar of the model: the days of March 2025 (day 1 is the last day
\* of February, day 4 the first of April)
Calendar == [March |-> [first |-> 2, last |-> 3]]

\* get_month_range(month, year): strptime(month, "%B") raises ValueError for
\* a string that is no month name; else the first and last day as dates
get_month_range(month) ==
    IF month \in DOMAIN Calendar
    THEN [value |-> Calendar[month]]
    ELSE [exception |-> "ValueError"]

\* a date compared with a DateTime column: the date at midnight
DateToTimestamp(day) == DT(day, 0)

\* the filter of budget_usage, for one budget row
UsageFilter(b, user_id, start_date, end_date) ==
    /\ b.user_id = user_id
    /\ DateLeq(DateToTimestamp(start_date), b.start_date)
    /\ DateLeq(b.end_date, DateToTimestamp(end_date))

\* the orders .all() may return the rows of the id set S in (no ORDER BY)
Orders(S) ==
    {ord \in [1..Cardinality(S) -> S] :
        \A j, k \in 1..Cardinality(S) : j # k => ord[j] # ord[k]}

\* the first exception in a sequence of results, if any
RECURSIVE FirstRaised(_)
FirstRaised(results) ==
    IF results = <<>> THEN <<>>
    ELSE IF Raised(results[1]) THEN <<results[1]>>
    ELSE FirstRaised(Tail(results))

\* budget_usage(user_id, month, db): what the call can end in.  The loop
\* appends budget_status of every selected budget; an exception of
\* get_month_range or of one budget_status ends the call
budget_usage(user_id, month) ==
    LET range == get_month_range(month)
    IN IF Raised(range) THEN {range}
       ELSE LET selected == {i \in 1..Len(budgets) :
                               UsageFilter(budgets[i], user_id,
                                           range.value.first, range.value.last)}
                outcomes == UNION {budget_status(i, user_id) : i \in selected}
            IN UNION {
                 { IF FirstRaised(results) # <<>>
                   THEN FirstRaised(results)[1]
                   ELSE [value |-> [k \in 1..Len(results) |-> results[k].value]] :
                   results \in {r \in [1..Cardinality(selected) -> outcomes] :
                                  \A k \in 1..Cardinality(selected) :
                                     r[k] \in budget_status(ord[k], user_id)} } :
                 ord \in Orders(selected) }

\* GET /usage/?month=...
usage_of_budget(month, user_id) ==
    /\ \E result \in budget_usage(user_id, month) :
          response' = [view |-> "usage_of_budget"] @@ ViewResponse(result)
    /\ UNCHANGED <<users, transactions, budgets, budget_expenses, topic, offset, wpc, wlocal,
                   matched, rival, last, ideal, categories, cache_categories, startup>>

\* startup_event(): setup_cache(db) inside two try/except blocks.  Whatever
\* a query of the load raises is caught and printed, and startup completes
startup_event(failed_query) ==
    /\ ~startup.done
    /\ cache_categories' = load_categories(cache_categories, categories, failed_query)
    /\ startup' = [done |-> TRUE, failed_query |-> failed_query]
    /\ UNCHANGED <<users, transactions, budgets, budget_expenses, topic, offset, wpc, wlocal,
                   response, matched, rival, last, ideal, categories>>

\* a category_create that would also put the new name in the cache
category_create_WriteThrough(category) ==
    /\ Cardinality(DOMAIN categories.expense_categories) < MaxCategories
    /\ LET id == Cardinality(DOMAIN categories.expense_categories) + 1
       IN /\ categories' = [categories EXCEPT !.expense_categories = @ @@ (id :> category)]
          /\ cache_categories' =
                [cache_categories EXCEPT !.expense_categories = @ @@ (id :> category)]
          /\ response' = [status |-> "success", data |-> id]
    /\ UNCHANGED <<users, transactions, budgets, budget_expenses, topic, offset, wpc, wlocal,
                   matched, rival, last, ideal, startup>>

\* POST /category/ of the admin router: one more expense_categories row
category_create(category) ==
    /\ Cardinality(DOMAIN categories.expense_categories) < MaxCategories
    /\ LET id == Cardinality(DOMAIN categories.expense_categories) + 1
       IN /\ categories' = [categories EXCEPT !.expense_categories = @ @@ (id :> category)]
          /\ response' = [status |-> "success", data |-> id]
    /\ UNCHANGED <<users, transactions, budgets, budget_expenses, topic, offset, wpc, wlocal,
                   matched, rival, last, ideal, cache_categories, startup>>

\* POST /subcategory/ of the admin router: one more expense_subcategories row
subcategory_create(sub_category) ==
    /\ Cardinality(DOMAIN categories.expense_subcategories) < MaxCategories
    /\ LET id == Cardinality(DOMAIN categories.expense_subcategories) + 1
       IN /\ categories' = [categories EXCEPT
                               !.expense_subcategories = @ @@ (id :> sub_category)]
          /\ response' = [status |-> "success", data |-> id]
    /\ UNCHANGED <<users, transactions, budgets, budget_expenses, topic, offset, wpc, wlocal,
                   matched, rival, last, ideal, cache_categories, startup>>

\* list_view, for one row: the names come from the cache with dict.get
list_view(obj) ==
    LET base == [id |-> obj.id,
                 transaction_type_id |-> obj.transaction_type_id,
                 amount |-> obj.amount,
                 description |-> obj.description,
                 transaction_date |-> obj.transaction_date]
    IN IF obj.transaction_type_id = 1
       THEN base @@
            [transaction_type |-> "Income",
             transaction_type_category_id |-> obj.transaction_type_category_id,
             transaction_type_category |->
                DictGet(cache_categories.income_categories,
                        obj.transaction_type_category_id)]
       ELSE IF obj.transaction_type_id = 2
       THEN base @@
            [transaction_type |-> "Expense",
             transaction_type_category_id |-> obj.transaction_type_category_id,
             transaction_type_category |->
                DictGet(cache_categories.expense_categories,
                        obj.transaction_type_category_id)] @@
            (IF obj.transaction_type_subcategory_id # 0
             THEN [transaction_type_subcategory_id |-> obj.transaction_type_subcategory_id,
                   transaction_type_subcategory |->
                      DictGet(cache_categories.expense_sub_categories,
                              obj.transaction_type_subcategory_id)]
             ELSE <<>>)
       ELSE base

\* list_recent_transactions(user_id, db): the user's rows by transaction_date
\* descending (rows of the same date in any order; the limit of 10 is above
\* the model's table size), through list_view
list_recent_transactions(user_id) ==
    LET S == {i \in 1..Len(transactions) : transactions[i].user_id = user_id}
    IN {[k \in 1..Cardinality(S) |-> list_view(transactions[ord[k]])] :
          ord \in {o \in Orders(S) :
                     \A j, k \in 1..Cardinality(S) :
                        j < k => DateLeq(transactions[o[k]].transaction_date,
                                         transactions[o[j]].transaction_date)}}

\* GET /recent-list/
recent_list(user_id) ==
    /\ \E data \in list_recent_transactions(user_id) :
          response' = IF data # <<>>
                      THEN [view |-> "recent_list", status |-> "success", data |-> data]
                      ELSE [view |-> "recent_list", status |-> "error",
                            message |-> "No transactions records found."]
    /\ UNCHANGED <<users, transactions, budgets, budget_expenses, topic, offset, wpc, wlocal,
                   matched, rival, last, ideal, categories, cache_categories, startup>>

----------------------------------------------------------------------------
(* User accounts (src/user/services.py) *)

Emails == {"a@example.com", "b@example.com"}

Passwords == {"testpassword", "wrongpassword"}

Salts == {1, 2}

\* pwd_context.hash(password): a bcrypt hash string, which holds the salt
\* passlib drew and the checksum bcrypt computes from salt and password
\* (passwords within the 72 bytes bcrypt reads)
pwd_hash(password, salt) ==
    [scheme |-> "bcrypt", salt |-> salt, checksum |-> <<salt, password>>]

\* verify_password(requested_password, password): pwd_context.verify hashes
\* the requested password with the salt of the stored hash and compares
verify_password(requested_password, password) ==
    pwd_hash(requested_password, password.salt).checksum = password.checksum

\* get_user(email, db): .one_or_none() on the unique email column; the id of
\* the row, 0 for None
get_user(email) ==
    IF \E i \in 1..Len(users) : users[i].email = email
    THEN CHOOSE i \in 1..Len(users) : users[i].email = email
    ELSE 0

\* an authenticate_user that would not verify the password
authenticate_user_NoVerify(email, requested_password) ==
    LET user == get_user(email)
    IN IF user = 0
       THEN [user |-> 0, message |-> "Email not found or incorrect."]
       ELSE [user |-> user, message |-> "User authenticated."]

\* authenticate_user(email, requested_password, db): the pair it returns,
\* its first component the id of the user row, 0 for False
authenticate_user(email, requested_password) ==
    LET user == get_user(email)
    IN IF user = 0
       THEN [user |-> 0, message |-> "Email not found or incorrect."]
       ELSE IF ~verify_password(requested_password, users[user].password)
       THEN [user |-> 0, message |-> "Incorrect password."]
       ELSE [user |-> user, message |-> "User authenticated."]

\* create_user(user, db): the password is hashed and the row added; the
\* unique index on email makes the commit of a second row of that email raise
create_user(email, password, salt) ==
    IF get_user(email) # 0 THEN users
    ELSE Append(users, [id |-> Len(users) + 1, email |-> email,
                        password |-> pwd_hash(password, salt)])

\* POST /auth/sign-up/
signup(email, password, salt) ==
    /\ Len(users) < MaxUsers
    /\ users' = create_user(email, password, salt)
    /\ response' = IF get_user(email) = 0
                   THEN [view |-> "signup", status |-> "success"]
                   ELSE [view |-> "signup"] @@ ViewError("IntegrityError")
    /\ UNCHANGED <<transactions, budgets, budget_expenses, topic, offset, wpc, wlocal,
                   matched, rival, last, ideal, categories, cache_categories, startup>>

\* POST /auth/login/: authenticate_user, then a token for the user's email or
\* the message of the failure
login(email, password) ==
    /\ LET result == authenticate_user(email, password)
       IN response' =
             IF result.user # 0
             THEN [view |-> "login", status |-> "success",
                   message |-> "Logged In successfully.",
                   sub |-> users[result.user].email]
             ELSE [view |-> "login", status |-> "error", message |-> result.message]
    /\ UNCHANGED <<users, transactions, budgets, budget_expenses, topic, offset, wpc,
                   wlocal, matched, rival, last, ideal, categories, cache_categories,
                   startup>>

----------------------------------------------------------------------------
(* Channel *)

\* at-least-once delivery: a message already delivered is delivered again
Redeliver ==
    /\ Len(topic) < MaxTopic
    /\ \E i \in 1..offset : topic' = Append(topic, topic[i])
    /\ ideal' = FALSE
    /\ UNCHANGED <<users, categories, cache_categories, startup, transactions, budgets, budget_expenses, offset, wpc, wlocal,
                   response, matched, rival, last>>

----------------------------------------------------------------------------
(* Consumer thread *)

\* one iteration of the loop of consume_messages on a message that
\* process_message cannot turn into a Transaction: the exception leaves the
\* loop and start_consumer prints it, the thread ends
ConsumeMalformed(w) ==
    /\ wpc[w] = "poll"
    /\ offset < Len(topic)
    /\ ~CanBuildTransaction(topic[offset + 1])
    /\ offset' = offset + 1
    /\ wpc' = [wpc EXCEPT ![w] = "dead"]
    /\ UNCHANGED <<users, categories, cache_categories, startup, transactions, budgets, budget_expenses, topic, wlocal, response,
                   matched, rival, last, ideal>>

\* one iteration of the loop of consume_messages, single consumer:
\* process_message builds the Transaction and runs budget_tracker
Consume(w) ==
    /\ wpc[w] = "poll"
    /\ offset < Len(topic)
    /\ CanBuildTransaction(topic[offset + 1])
    /\ LET trasaction == topic[offset + 1]
       IN \E bid \in (IF check_budget(trasaction) = {} THEN {0} ELSE check_budget(trasaction)) :
          \E eid \in (IF bid = 0 \/ check_budget_expense(budgets[bid]) = {}
                      THEN {0} ELSE check_budget_expense(budgets[bid])) :
             /\ budget_expenses' =
                   TrackerWrite(budget_expenses, trasaction, bid, eid # 0,
                                IF eid = 0 THEN 0 ELSE budget_expenses[eid].amount_spent)
             /\ last' = [budget |-> bid,
                         before |-> IF eid = 0 THEN 0 ELSE budget_expenses[eid].amount_spent]
             /\ NoteProcessed(trasaction)
    /\ offset' = offset + 1
    /\ UNCHANGED <<users, categories, cache_categories, startup, transactions, budgets, topic, wpc, wlocal, response, ideal>>

\* budget_tracker in a consumer that runs beside another one, up to its
\* write: the message is taken and check_budget and check_budget_expense are
\* run; what they returned is held in the function's locals
TrackerRead(w) ==
    /\ wpc[w] = "poll"
    /\ offset < Len(topic)
    /\ CanBuildTransaction(topic[offset + 1])
    /\ LET trasaction == topic[offset + 1]
       IN \E bid \in (IF check_budget(trasaction) = {} THEN {0} ELSE check_budget(trasaction)) :
          \E eid \in (IF bid = 0 \/ check_budget_expense(budgets[bid]) = {}
                      THEN {0} ELSE check_budget_expense(budgets[bid])) :
             wlocal' = [wlocal EXCEPT ![w] =
                          [trasaction |-> trasaction, budget |-> bid, found |-> eid # 0,
                           before |-> IF eid = 0 THEN 0
                                      ELSE budget_expenses[eid].amount_spent]]
    /\ offset' = offset + 1
    /\ wpc' = [wpc EXCEPT ![w] = "write"]
    /\ UNCHANGED <<users, categories, cache_categories, startup, transactions, budgets, budget_expenses, topic, response,
                   matched, rival, last, ideal>>

\* the rest of budget_tracker: update_budget_expense or create_budget_expense
\* with the values computed from the earlier reads, and the commit
TrackerCommit(w) ==
    /\ wpc[w] = "write"
    /\ budget_expenses' =
          TrackerWrite(budget_expenses, wlocal[w].trasaction, wlocal[w].budget,
                       wlocal[w].found, wlocal[w].before)
    /\ last' = [budget |-> wlocal[w].budget, before |-> wlocal[w].before]
    /\ NoteProcessed(wlocal[w].trasaction)
    /\ wpc' = [wpc EXCEPT ![w] = "poll"]
    /\ wlocal' = [wlocal EXCEPT ![w] = NoLocals]
    /\ UNCHANGED <<users, categories, cache_categories, startup, transactions, budgets, topic, offset, response, ideal>>

\* shutdown_handler(signum, frame), on SIGINT or SIGTERM: kafka_consumer.close()
\* and sys.exit(0) in the main thread.  The consumer runs in a daemon thread
\* that nothing joins: it ends with the process wherever it is, and a
\* budget_tracker frame that was between its reads and its write is never
\* resumed (wlocal keeps what it held)
shutdown_handler ==
    /\ \E w \in Workers : wpc[w] # "exit"
    /\ wpc' = [w \in Workers |-> "exit"]
    /\ UNCHANGED <<users, transactions, budgets, budget_expenses, topic, offset, wlocal,
                   response, matched, rival, last, ideal, categories,
                   cache_categories, startup>>

----------------------------------------------------------------------------
\* the request bodies and callers the pipeline is driven with
BudgetData ==
    [transaction_type_category_id : Categories,
     transaction_type_subcategory_id : {1},
     amount : BudgetAmounts,
     start_date : BudgetStarts,
     end_date : BudgetEnds]

TransactionData ==
    [transaction_type_id : TransactionTypes,
     transaction_type_category_id : Categories,
     transaction_type_subcategory_id : {0},
     amount : Amounts,
     description : Descriptions,
     transaction_date : TransactionDates]

\* TransactionUpdate requires the category; model_dump(exclude_unset=True)
\* keeps only the fields the client sent
TransactionUpdateData ==
    [transaction_type_category_id : Categories]
      \cup [transaction_type_category_id : Categories, amount : Amounts]

Callers == {1}

Next ==
    \/ \E data \in BudgetData, u \in Callers : create_budget(data, u)
    \/ \E data \in TransactionData, u \in Callers, up \in BOOLEAN :
          create_transaction(data, u, up)
    \/ \E data \in TransactionUpdateData, id \in 1..MaxTransactions, u \in Callers,
          up \in BOOLEAN : update_transaction(data, id, u, up)
    \/ Redeliver
    \/ Consume(1)
    \/ ConsumeMalformed(1)

Spec == Init /\ [][Next]_vars

----------------------------------------------------------------------------
(* One reconciliation step on every kind of store: two budgets (the first  *)
(* with any owner, category, subcategory and date range), their ledger     *)
(* rows present or not, and one published transaction with any owner,      *)
(* category, date and amount; then the consumer processes the event.       *)

BoundaryDays == {2, 3}

AllDays == {1, 2, 3, 4}

TimesOfDay == {0, 1}

PlusDays(d, n) == DT(d.day + n, d.tod)

\* the ledger row budget_tracker creates for budget b, with amount a
LedgerRowOf(b, a) ==
    [budget_id |-> b.id,
     transaction_type_category_id |-> b.transaction_type_category_id,
     transaction_type_subcategory_id |-> b.transaction_type_subcategory_id,
     amount_spent |-> a]

WithIds(rows) == [k \in 1..Len(rows) |-> [id |-> k] @@ rows[k]]

InitStep ==
    \E bu \in Users, bc \in Categories, bs \in SubCategories,
       sd \in BoundaryDays, st \in TimesOfDay, ed \in BoundaryDays, et \in TimesOfDay,
       ou \in Users,
       tu \in Users, tc \in Categories, td \in AllDays, tt \in TimesOfDay, a \in Amounts :
       LET t == [id |-> 1, user_id |-> tu, transaction_type_id |-> 2,
                 transaction_type_category_id |-> tc,
                 transaction_type_subcategory_id |-> 0,
                 amount |-> a, description |-> "lunch",
                 transaction_date |-> DT(td, tt)]
           b1 == [id |-> 1, user_id |-> bu,
                  transaction_type_category_id |-> bc,
                  transaction_type_subcategory_id |-> bs,
                  amount |-> 2,
                  start_date |-> DT(sd, st), end_date |-> DT(ed, et)]
           b2 == [id |-> 2, user_id |-> ou,
                  transaction_type_category_id |-> 2,
                  transaction_type_subcategory_id |-> 0,
                  amount |-> 2,
                  start_date |-> DT(2, 0), end_date |-> DT(3, 1)]
       IN /\ budgets = <<b1, b2>>
          /\ transactions = <<t>>
          /\ topic = <<jsonable_encoder(t)>>
          /\ budget_expenses \in {<<>>,
                                  WithIds(<<LedgerRowOf(b2, 1)>>),
                                  WithIds(<<LedgerRowOf(b2, 1), LedgerRowOf(b1, 2)>>)}
          /\ offset = 0
          /\ wpc = [w \in Workers |-> "poll"]
          /\ wlocal = [w \in Workers |-> NoLocals]
          /\ response = NoResponse
          /\ matched = <<<<>>, <<>>>>
          /\ rival = <<FALSE, FALSE>>
          /\ last = NoStep
          /\ ideal = TRUE
          /\ categories = SeedCategories
          /\ cache_categories = load_categories(EmptyCache, SeedCategories, 0)
          /\ startup = Started
          /\ users = <<>>

NextStep == Consume(1)

SpecStep == InitStep /\ [][NextStep]_vars

----------------------------------------------------------------------------
(* Two consumers of the group "budget-group" working through two published *)
(* events, on a store with one budget whose ledger row exists or not.      *)

InitConc ==
    \E bu \in Users, bdata \in BudgetData, prior \in {0, 1},
       u1 \in Users, d1 \in TransactionData, u2 \in Users, d2 \in TransactionData :
       LET b1 == [id |-> 1, user_id |-> bu,
                  transaction_type_category_id |-> bdata.transaction_type_category_id,
                  transaction_type_subcategory_id |-> bdata.transaction_type_subcategory_id,
                  amount |-> bdata.amount,
                  start_date |-> bdata.start_date, end_date |-> bdata.end_date]
           t1 == NewTransaction(<<>>, d1, u1)
           t2 == NewTransaction(<<t1>>, d2, u2)
       IN /\ budgets = <<b1>>
          /\ transactions = <<t1, t2>>
          /\ topic = <<jsonable_encoder(t1), jsonable_encoder(t2)>>
          /\ budget_expenses = IF prior = 0 THEN <<>> ELSE WithIds(<<LedgerRowOf(b1, prior)>>)
          /\ matched = IF prior = 0 THEN <<<<>>>> ELSE <<<<prior>>>>
          /\ offset = 0
          /\ wpc = [w \in Workers |-> "poll"]
          /\ wlocal = [w \in Workers |-> NoLocals]
          /\ response = NoResponse
          /\ rival = <<FALSE>>
          /\ last = NoStep
          /\ ideal = TRUE
          /\ categories = SeedCategories
          /\ cache_categories = load_categories(EmptyCache, SeedCategories, 0)
          /\ startup = Started
          /\ users = <<>>

NextConc == \E w \in Workers : TrackerRead(w) \/ TrackerCommit(w)

SpecConc == InitConc /\ [][NextConc]_vars

----------------------------------------------------------------------------
(* Status reads on a store with two budgets, their ledger rows as           *)
(* reconciliation left them, and the category tables.                       *)

StatusAmounts == {0, 100, 1000}

LedgerAmounts == {-100, 0, 80, 90, 100, 120, 850, 1200}

UsageMonths == {"March", "Mar"}

InitStatus ==
    \E u1 \in Users, c1 \in Categories, sc1 \in SubCategories, a1 \in StatusAmounts,
       s1 \in {DT(1, 1), DT(2, 0)}, e1 \in {DT(3, 0), DT(3, 1), DT(4, 0)},
       spent1 \in LedgerAmounts, row1 \in BOOLEAN,
       u2 \in Users, known \in {{1}, {1, 2}} :
       LET b1 == [id |-> 1, user_id |-> u1,
                  transaction_type_category_id |-> c1,
                  transaction_type_subcategory_id |-> sc1,
                  amount |-> a1, start_date |-> s1, end_date |-> e1]
           b2 == [id |-> 2, user_id |-> u2,
                  transaction_type_category_id |-> 2,
                  transaction_type_subcategory_id |-> 0,
                  amount |-> 100, start_date |-> DT(2, 0), end_date |-> DT(3, 0)]
       IN /\ budgets = <<b1, b2>>
          /\ (row1 \/ spent1 = 0)
          /\ budget_expenses =
                WithIds(<<LedgerRowOf(b2, 90)>>
                        \o (IF row1 THEN <<LedgerRowOf(b1, spent1)>> ELSE <<>>))
          /\ categories =
                [SeedCategories EXCEPT
                    !.expense_categories = [i \in known |-> SeedCategories.expense_categories[i]]]
          /\ cache_categories = load_categories(EmptyCache, categories, 0)
          /\ startup = Started
          /\ users = <<>>
          /\ transactions = <<>>
          /\ topic = <<>>
          /\ offset = 0
          /\ wpc = [w \in Workers |-> "poll"]
          /\ wlocal = [w \in Workers |-> NoLocals]
          /\ response = NoResponse
          /\ matched = <<<<>>, <<>>>>
          /\ rival = <<FALSE, FALSE>>
          /\ last = NoStep
          /\ ideal = TRUE

NextStatus ==
    \/ \E budget_id \in 1..3, u \in Users : status_of_budget(budget_id, u)
    \/ \E month \in UsageMonths, u \in Users : usage_of_budget(month, u)

SpecStatus == InitStatus /\ [][NextStatus]_vars

----------------------------------------------------------------------------
(* The consumer thread working through two published events while a        *)
(* shutdown signal may arrive at any moment.                                *)

NextShutdown ==
    \/ TrackerRead(1)
    \/ TrackerCommit(1)
    \/ shutdown_handler

SpecShutdown == InitConc /\ [][NextShutdown]_vars

----------------------------------------------------------------------------
(* The application from before its startup event: the load of the category *)
(* cache, then the API, the admin router and the consumer at work.          *)

CacheTransactionData ==
    [transaction_type_id : {1, 2},
     transaction_type_category_id : {1, 3},
     transaction_type_subcategory_id : SubCategories,
     amount : {2},
     description : Descriptions,
     transaction_date : TransactionDates]

CacheBudgetData == {d \in BudgetData : d.transaction_type_category_id = 1}

InitCache ==
    /\ \E known \in {{1}, {1, 2}} :
          categories =
             [SeedCategories EXCEPT
                 !.expense_categories = [i \in known |-> SeedCategories.expense_categories[i]]]
    /\ cache_categories = EmptyCache
    /\ startup = [done |-> FALSE, failed_query |-> 0]
    /\ users = <<>>
    /\ transactions = <<>>
    /\ budgets = <<>>
    /\ budget_expenses = <<>>
    /\ topic = <<>>
    /\ offset = 0
    /\ wpc = [w \in Workers |-> "poll"]
    /\ wlocal = [w \in Workers |-> NoLocals]
    /\ response = NoResponse
    /\ matched = <<>>
    /\ rival = <<>>
    /\ last = NoStep
    /\ ideal = TRUE

NextCache ==
    \/ \E failed_query \in 0..3 : startup_event(failed_query)
    \/ startup.done /\ category_create("Travel")
    \/ startup.done /\ subcategory_create("Fuel")
    \/ startup.done /\ \E u \in Callers : recent_list(u)
    \/ startup.done /\ \E u \in Callers : status_of_budget(1, u)
    \/ startup.done /\ \E u \in Callers, data \in CacheBudgetData : create_budget(data, u)
    \/ startup.done /\ \E u \in Callers, data \in CacheTransactionData :
          create_transaction(data, u, TRUE)
    \/ startup.done /\ \E u \in Callers :
          update_transaction([transaction_type_category_id |-> 1], 1, u, TRUE)
    \/ startup.done /\ Consume(1)

SpecCache == InitCache /\ [][NextCache]_vars

----------------------------------------------------------------------------
(* The transaction API driven with every kind of request body, by either   *)
(* user, for ids that exist and ids that do not, with the broker reachable *)
(* or not; the consumer takes what was published.                          *)

WriteDescriptions == {PyNone, "lunch"}

WriteTransactionData ==
    [transaction_type_id : {1, 2},
     transaction_type_category_id : {1},
     transaction_type_subcategory_id : SubCategories,
     amount : {2},
     description : WriteDescriptions,
     transaction_date : TransactionDates]

WriteUpdateData ==
    [transaction_type_category_id : Categories]
      \cup [transaction_type_category_id : {1}, description : WriteDescriptions]
      \cup [transaction_type_category_id : {2}, amount : {-1}]

WriteIds == 1..2

NextWrite ==
    \/ \E data \in WriteTransactionData, u \in Users, up \in BOOLEAN :
          create_transaction(data, u, up)
    \/ \E data \in WriteUpdateData, id \in WriteIds, u \in Users, up \in BOOLEAN :
          update_transaction(data, id, u, up)
    \/ Consume(1)
    \/ ConsumeMalformed(1)

SpecWrite == Init /\ [][NextWrite]_vars

----------------------------------------------------------------------------
(* Sign-up and login against the users table.                               *)

NextAuth ==
    \/ \E email \in Emails, password \in Passwords, salt \in Salts :
          signup(email, password, salt)
    \/ \E email \in Emails, password \in Passwords : login(email, password)

SpecAuth == Init /\ [][NextAuth]_vars

----------------------------------------------------------------------------
(* The pipeline with budgets that are edited after they were created.       *)

\* BudgetUpdate: every field optional; model_dump(exclude_unset=True) keeps
\* the fields the client sent
BudgetUpdateData ==
    [transaction_type_category_id : Categories]
      \cup [transaction_type_subcategory_id : SubCategories \cup {2}]

EditTransactionData == {d \in TransactionData : d.amount = 2}

NextEdit ==
    \/ \E data \in BudgetData, u \in Callers : create_budget(data, u)
    \/ \E data \in BudgetUpdateData, id \in 1..MaxBudgets, u \in Callers :
          update_budget(data, id, u)
    \/ \E data \in EditTransactionData, u \in Callers : create_transaction(data, u, TRUE)
    \/ \E data \in [transaction_type_category_id : Categories], u \in Callers :
          update_transaction(data, 1, u, TRUE)
    \/ Consume(1)

SpecEdit == Init /\ [][NextEdit]_vars

----------------------------------------------------------------------------
(* Two budgets whose owners and categories may coincide or differ, each     *)
(* with its own amount and (possibly) its own ledger row, one published     *)
(* transaction of either user; the consumer processes it and either user    *)
(* reads status and usage.                                                  *)

InitOwner ==
    \E u1 \in Users, c1 \in Categories, u2 \in Users, c2 \in Categories,
       row1 \in BOOLEAN, row2 \in BOOLEAN, tu \in Users, tc \in Categories :
       LET b1 == [id |-> 1, user_id |-> u1,
                  transaction_type_category_id |-> c1,
                  transaction_type_subcategory_id |-> 0,
                  amount |-> 100, start_date |-> DT(2, 0), end_date |-> DT(3, 0)]
           b2 == [id |-> 2, user_id |-> u2,
                  transaction_type_category_id |-> c2,
                  transaction_type_subcategory_id |-> 0,
                  amount |-> 1000, start_date |-> DT(2, 0), end_date |-> DT(3, 0)]
           t == [id |-> 1, user_id |-> tu, transaction_type_id |-> 2,
                 transaction_type_category_id |-> tc,
                 transaction_type_subcategory_id |-> 0,
                 amount |-> 20, description |-> "lunch",
                 transaction_date |-> DT(2, 0)]
       IN /\ budgets = <<b1, b2>>
          /\ budget_expenses =
                WithIds((IF row2 THEN <<LedgerRowOf(b2, 850)>> ELSE <<>>)
                        \o (IF row1 THEN <<LedgerRowOf(b1, 80)>> ELSE <<>>))
          /\ transactions = <<t>>
          /\ topic = <<jsonable_encoder(t)>>
          /\ offset = 0
          /\ wpc = [w \in Workers |-> "poll"]
          /\ wlocal = [w \in Workers |-> NoLocals]
          /\ response = NoResponse
          /\ matched = <<<<>>, <<>>>>
          /\ rival = <<FALSE, FALSE>>
          /\ last = NoStep
          /\ ideal = TRUE
          /\ categories = SeedCategories
          /\ cache_categories = load_categories(EmptyCache, SeedCategories, 0)
          /\ startup = Started
          /\ users = <<>>

NextOwner ==
    \/ Consume(1)
    \/ \E budget_id \in 1..2, u \in Users : status_of_budget(budget_id, u)
    \/ \E u \in Users : usage_of_budget("March", u)

SpecOwner == InitOwner /\ [][NextOwner]_vars

----------------------------------------------------------------------------
(* One budget, its ledger row present or not, and three published events   *)
(* of small and large amounts in some order; the consumer works through    *)
(* them.                                                                    *)

OrderAmounts == {1, 2048}

InitOrder ==
    \E prior \in {0, 1}, c1 \in Categories, a1 \in OrderAmounts,
       c2 \in Categories, a2 \in OrderAmounts, c3 \in Categories, a3 \in OrderAmounts :
       LET b1 == [id |-> 1, user_id |-> 1,
                  transaction_type_category_id |-> 1,
                  transaction_type_subcategory_id |-> 0,
                  amount |-> 100, start_date |-> DT(2, 0), end_date |-> DT(3, 0)]
           t(i, c, a) == [id |-> i, user_id |-> 1, transaction_type_id |-> 2,
                          transaction_type_category_id |-> c,
                          transaction_type_subcategory_id |-> 0,
                          amount |-> a, description |-> "lunch",
                          transaction_date |-> DT(2, 0)]
       IN /\ budgets = <<b1>>
          /\ transactions = <<t(1, c1, a1), t(2, c2, a2), t(3, c3, a3)>>
          /\ topic = [i \in 1..3 |-> jsonable_encoder(transactions[i])]
          /\ budget_expenses = IF prior = 0 THEN <<>> ELSE WithIds(<<LedgerRowOf(b1, prior)>>)
          /\ matched = IF prior = 0 THEN <<<<>>>> ELSE <<<<prior>>>>
          /\ offset = 0
          /\ wpc = [w \in Workers |-> "poll"]
          /\ wlocal = [w \in Workers |-> NoLocals]
          /\ response = NoResponse
          /\ rival = <<FALSE>>
          /\ last = NoStep
          /\ ideal = TRUE
          /\ categories = SeedCategories
          /\ cache_categories = load_categories(EmptyCache, SeedCategories, 0)
          /\ startup = Started
          /\ users = <<>>

NextOrder == Consume(1)

SpecOrder == InitOrder /\ [][NextOrder]_vars

----------------------------------------------------------------------------
(* Properties *)

\* the ledger rows of budget b in the table `rows`
LedgerRowsIn(rows, b) == {k \in 1..Len(rows) : rows[k].budget_id = b}

LedgerRows(b) == LedgerRowsIn(budget_expenses, b)

\* this step is one iteration of the consumer loop on a well-formed event
ConsumeStep ==
    /\ offset' = offset + 1
    /\ CanBuildTransaction(topic[offset + 1])

\* C1 as stated: once N >= 1 events matching a budget have been processed
\* (the budget had no ledger row when it was created, and budgets are never
\* modified), the budget has a ledger whose amount_spent is the sum of the
\* N amounts.
C1_AccumulationAnyBudget ==
    \A b \in 1..Len(budgets) :
        Len(matched[b]) >= 1 =>
            /\ LedgerRows(b) # {}
            /\ \A k \in LedgerRows(b) :
                  budget_expenses[k].amount_spent = SumSeq(matched[b])

\* C1 amended: the same, for a budget that was the only budget matching each
\* of those events (no other budget of the owner with that category had the
\* transaction date in its range).
C1_LedgerAccumulation ==
    \A b \in 1..Len(budgets) :
        (Len(matched[b]) >= 1 /\ ~rival[b]) =>
            /\ LedgerRows(b) # {}
            /\ \A k \in LedgerRows(b) :
                  budget_expenses[k].amount_spent = SumSeq(matched[b])

C1_Witness ==
    \E b \in 1..Len(budgets) :
        /\ Len(matched[b]) >= 2
        /\ ~rival[b]
        /\ matched[b][1] # matched[b][2]
        /\ \E k \in LedgerRows(b) :
              budget_expenses[k].amount_spent = matched[b][1] + matched[b][2]

\* C2: processing an event whose transaction matches no budget leaves the
\* ledger table as it was (no row created, no amount changed) and the
\* consumer keeps polling (it is not an error).
C2_NoMatchNoOp ==
    [][(ConsumeStep /\ MatchingBudgets(topic[offset + 1]) = {})
          => (budget_expenses' = budget_expenses /\ wpc' = wpc /\ wpc[1] = "poll")]_vars

C2_Witness ==
    /\ offset = 1
    /\ CanBuildTransaction(topic[1])
    /\ MatchingBudgets(topic[1]) = {}
    /\ last.budget = 0
    /\ Len(budget_expenses) = 2
    /\ budgets[1].user_id = transactions[1].user_id
    /\ budgets[1].transaction_type_category_id
          = transactions[1].transaction_type_category_id
    /\ wpc[1] = "poll"

\* C3: for a budget with a date range (start_date <= end_date) and a
\* transaction of the same owner and category, check_budget's filter keeps
\* the budget when transaction_date equals start_date or equals end_date (and
\* the event is reconciled against it when it is the only match), and drops
\* it when transaction_date is one day before start_date or one day after
\* end_date (and the event is not reconciled against it).
C3_InclusiveBounds ==
    (offset = 1 /\ CanBuildTransaction(topic[1])) =>
        LET b == budgets[1]
            t == transactions[1]
        IN (/\ b.user_id = t.user_id
            /\ b.transaction_type_category_id = t.transaction_type_category_id
            /\ DateLeq(b.start_date, b.end_date))
           => /\ (t.transaction_date \in {b.start_date, b.end_date}
                    => /\ 1 \in check_budget(topic[1])
                       /\ last.budget # 0
                       /\ (MatchingBudgets(topic[1]) = {1} => last.budget = 1))
              /\ (t.transaction_date \in {PlusDays(b.start_date, -1), PlusDays(b.end_date, 1)}
                    => /\ 1 \notin check_budget(topic[1])
                       /\ last.budget # 1)

C3_Witness ==
    /\ offset = 1
    /\ budgets[1].start_date # budgets[1].end_date
    /\ budgets[1].end_date.tod = 1
    /\ budgets[1].user_id = transactions[1].user_id
    /\ budgets[1].transaction_type_category_id
          = transactions[1].transaction_type_category_id
    /\ transactions[1].transaction_date = budgets[1].end_date
    /\ last.budget = 1
    /\ LedgerRows(1) # {}

\* C4: when the budget that check_budget returned has no ledger row, the
\* step appends exactly one ledger row, for that budget, with the budget's
\* category and subcategory and amount_spent = the transaction's amount; all
\* rows that existed are unchanged.
C4_LazyLedgerCreation ==
    [][(ConsumeStep /\ last'.budget # 0 /\ LedgerRows(last'.budget) = {})
          => budget_expenses' = Append(budget_expenses,
                [id |-> Len(budget_expenses) + 1,
                 budget_id |-> last'.budget,
                 transaction_type_category_id |->
                    budgets[last'.budget].transaction_type_category_id,
                 transaction_type_subcategory_id |->
                    budgets[last'.budget].transaction_type_subcategory_id,
                 amount_spent |-> topic[offset + 1].amount])]_vars

C4_Witness ==
    /\ offset = 1
    /\ Len(budget_expenses) = 2
    /\ last.budget = 1
    /\ last.before = 0
    /\ budget_expenses[2].budget_id = 1
    /\ budget_expenses[2].transaction_type_subcategory_id # 0
    /\ budget_expenses[2].amount_spent = transactions[1].amount
    /\ budget_expenses[1] = [id |-> 1] @@ LedgerRowOf(budgets[2], 1)

\* C5: when the event just processed against budget b is delivered again and
\* processed against b again, b's amount_spent ends at its value before the
\* first delivery plus twice the amount.
C5_RedeliveryDoubleCounts ==
    [][(/\ ConsumeStep
        /\ offset >= 1
        /\ topic[offset + 1] = topic[offset]
        /\ last.budget # 0
        /\ last'.budget = last.budget)
          => /\ LedgerRowsIn(budget_expenses', last.budget) # {}
             /\ \A k \in LedgerRowsIn(budget_expenses', last.budget) :
                   budget_expenses'[k].amount_spent
                      = last.before + 2 * topic[offset + 1].amount]_vars

C5_Witness ==
    /\ offset = 2
    /\ CanBuildTransaction(topic[1])
    /\ topic[1] = topic[2]
    /\ ~ideal
    /\ Len(transactions) = 1
    /\ last.budget # 0
    /\ last.before = topic[1].amount
    /\ \E k \in LedgerRows(last.budget) :
          budget_expenses[k].amount_spent = 2 * topic[1].amount

\* this step is one iteration of the consumer loop on a message that cannot
\* be turned into a Transaction
MalformedStep ==
    /\ offset' = offset + 1
    /\ ~CanBuildTransaction(topic[offset + 1])

\* C6: a message whose processing fails is skipped and the consumer loop
\* keeps running (the consumer goes on polling).
C6_LoopSurvivesFailure ==
    [][MalformedStep => wpc'[1] = "poll"]_vars

\* the sum of the current amounts of the transactions matching budget b
RECURSIVE TxSumTo(_, _)
TxSumTo(b, n) ==
    IF n = 0 THEN 0
    ELSE TxSumTo(b, n - 1)
           + (IF Matches(budgets[b], transactions[n]) THEN transactions[n].amount ELSE 0)

InSync(b) ==
    IF LedgerRows(b) = {}
    THEN TxSumTo(b, Len(transactions)) = 0
    ELSE \A k \in LedgerRows(b) :
            budget_expenses[k].amount_spent = TxSumTo(b, Len(transactions))

\* C7: once every published event has been processed, in a run without
\* redelivery or lost publish where the budgets were there before the
\* transactions, every budget that was the only match of its events has
\* amount_spent equal to the sum of the current amounts of the transactions
\* matching it: an updated transaction counts once, with its new amount.
C7_UpdateKeepsLedgerInSync ==
    (ideal /\ offset = Len(topic) /\ wpc[1] = "poll") =>
        \A b \in 1..Len(budgets) : ~rival[b] => InSync(b)

\* C8: no step lowers the amount_spent of a ledger row.
C8_AmountSpentNeverDecreases ==
    [][\A k \in 1..Len(budget_expenses) :
          budget_expenses'[k].amount_spent >= budget_expenses[k].amount_spent]_vars

\* C9: when two consumers have processed two events between them, every
\* budget that was the only match of its events has a single ledger row whose
\* amount_spent is its prior value plus the amounts of the events matching it.
C9_NoLostUpdate ==
    (offset = Len(topic) /\ \A w \in Workers : wpc[w] = "poll") =>
        \A b \in 1..Len(budgets) :
            (~rival[b] /\ matched[b] # <<>>) =>
                /\ Cardinality(LedgerRows(b)) = 1
                /\ \A k \in LedgerRows(b) :
                      budget_expenses[k].amount_spent = SumSeq(matched[b])

\* C10: a create_transaction or update_transaction call whose publish fails
\* leaves the record it wrote committed with the written values, and puts no
\* event on the topic, in that call or by a later retry (no other step
\* publishes for it).
C10_PublishFailureKeepsWrite ==
    [][\A u \in Callers :
          /\ \A data \in TransactionData :
                create_transaction(data, u, FALSE) =>
                   /\ transactions' = Append(transactions,
                                             NewTransaction(transactions, data, u))
                   /\ topic' = topic
          /\ \A data \in TransactionUpdateData, id \in 1..MaxTransactions :
                update_transaction(data, id, u, FALSE) =>
                   /\ Len(transactions') = Len(transactions)
                   /\ \A i \in 1..Len(transactions) :
                         IF transactions[i].id = id /\ transactions[i].user_id = u
                         THEN \A f \in DOMAIN transactions[i] :
                                 transactions'[i][f] =
                                    IF f \in DOMAIN data THEN data[f] ELSE transactions[i][f]
                         ELSE transactions'[i] = transactions[i]
                   /\ topic' = topic]_vars

C10_Witness ==
    /\ response.status = "error"
    /\ Len(transactions) = 1
    /\ topic = <<>>

\* C11: a create_transaction or update_transaction call made while the
\* broker is unreachable completes normally: create_transaction's caller gets
\* the success response with the id of the row just written, and
\* update_transaction's caller gets the success response.
C11_PublishFailureNotSurfaced ==
    [][\A u \in Callers :
          /\ \A data \in TransactionData :
                create_transaction(data, u, FALSE) =>
                   response' = [status |-> "success", id |-> Len(transactions')]
          /\ \A data \in TransactionUpdateData, id \in 1..MaxTransactions :
                update_transaction(data, id, u, FALSE) =>
                   response'.status = "success"]_vars

\* the last API call was GET /status/{budget_id}
IsStatusResponse == "view" \in DOMAIN response /\ response.view = "status_of_budget"

\* this step is GET /status/{budget_id} by user u, and the budget is u's
StatusStep(budget_id, u) ==
    /\ response'.view = "status_of_budget"
    /\ status_of_budget(budget_id, u)
    /\ \E i \in 1..Len(budgets) : budgets[i].id = budget_id /\ budgets[i].user_id = u

\* C12: a status read for a (budget_id, owner) that no budget has ends in
\* the NotFound outcome (and returns no report), also when the id is another
\* owner's budget.
C12_StatusNotFound ==
    [][\A budget_id \in 1..3, u \in Users :
          (/\ response'.view = "status_of_budget"
           /\ status_of_budget(budget_id, u)
           /\ ~\E i \in 1..Len(budgets) :
                  budgets[i].id = budget_id /\ budgets[i].user_id = u)
             => (response'.status = "error" /\ response'.message = "NotFound")]_vars

\* C13: for a budget with amount a > 0 the report has amount_spent = s, the
\* amount_spent of the budget's ledger row (0 without a row),
\* amount_remaining = a - s, unclamped, and percentage = s / a * 100.
C13_StatusArithmetic ==
    [][\A budget_id \in 1..3, u \in Users :
          (StatusStep(budget_id, u) /\ budgets[budget_id].amount > 0)
             => /\ response'.status = "success"
                /\ response'.data.amount = budgets[budget_id].amount
                /\ IF LedgerRows(budget_id) = {}
                   THEN response'.data.amount_spent = 0
                   ELSE \E k \in LedgerRows(budget_id) :
                           response'.data.amount_spent = budget_expenses[k].amount_spent
                /\ response'.data.amount_remaining
                      = budgets[budget_id].amount - response'.data.amount_spent
                /\ response'.data.percentage * budgets[budget_id].amount
                      = response'.data.amount_spent * 100]_vars

C13_Witness ==
    /\ IsStatusResponse
    /\ response.status = "success"
    /\ response.data.amount = 1000
    /\ response.data.amount_spent = 850
    /\ response.data.amount_remaining = 150
    /\ response.data.percentage = 85
    /\ \E b \in 1..Len(budgets) : \E k \in LedgerRows(b) :
          budgets[b].amount = 1000 /\ budget_expenses[k].amount_spent = 850

\* C14: a status read of a budget whose amount is 0 ends in the division
\* error (Python's ZeroDivisionError is the DivisionUndefined outcome) and
\* returns no report, with or without a ledger row.
C14_PercentageGuard ==
    [][\A budget_id \in 1..3, u \in Users :
          (StatusStep(budget_id, u) /\ budgets[budget_id].amount = 0)
             => (/\ response'.status = "error"
                 /\ response'.message = "ZeroDivisionError"
                 /\ "data" \notin DOMAIN response')]_vars

C14_Witness ==
    /\ IsStatusResponse
    /\ response.status = "error"
    /\ response.message = "ZeroDivisionError"
    /\ budgets[1].amount = 0
    /\ budgets[2].user_id # budgets[1].user_id
    /\ LedgerRows(1) # {}

\* C15: every report whose percentage is above 100 carries the 'exceeded
\* your budget limit' alert.
C15_ExceededAlert ==
    [][\A budget_id \in 1..3, u \in Users :
          (/\ StatusStep(budget_id, u)
           /\ response'.status = "success"
           /\ response'.data.percentage > 100)
             => response'.data.alert.text
                   = "You have exceeded your budget limit for {transaction_type_category} this month!"]_vars

\* the name of the budget's category and of its subcategory in the tables
\* (None for a row that is not there, empty for no subcategory)
CategoryNameOf(b) ==
    IF b.transaction_type_category_id \in DOMAIN categories.expense_categories
    THEN categories.expense_categories[b.transaction_type_category_id]
    ELSE "None"

SubcategoryNameOf(b) ==
    IF b.transaction_type_subcategory_id = 0 THEN ""
    ELSE IF b.transaction_type_subcategory_id \in DOMAIN categories.expense_subcategories
    THEN categories.expense_subcategories[b.transaction_type_subcategory_id]
    ELSE "None"

\* C16: a report whose percentage is at most 80 carries the default message
\* with the budget's category name, its subcategory name (empty when it has
\* none) and the percentage; a report whose percentage is above 80 carries
\* one of the threshold messages, not the default one.
C16_DefaultAlert ==
    [][\A budget_id \in 1..3, u \in Users :
          (StatusStep(budget_id, u) /\ response'.status = "success")
             => LET report == response'.data
                    default == "You have spent {percentage}% of your budget for {transaction_type_category} {transaction_type_subcategory} this month!"
                IN IF report.percentage <= 80
                   THEN report.alert =
                          [text |-> default,
                           percentage |-> report.percentage,
                           transaction_type_category |-> CategoryNameOf(budgets[budget_id]),
                           transaction_type_subcategory |-> SubcategoryNameOf(budgets[budget_id])]
                   ELSE report.alert.text \in
                          {"You have spent {percentage}% of your budget for {transaction_type_category} this month!",
                           "You have exceeded your budget limit for {transaction_type_category} this month!"}]_vars

C16_Witness ==
    /\ IsStatusResponse
    /\ response.status = "success"
    /\ response.data.percentage = 80
    /\ response.data.transaction_type_subcategory = ""
    /\ response.data.alert.transaction_type_category = "Food"
    /\ "transaction_type_subcategory" \in DOMAIN response.data.alert

\* the budgets of user u whose start_date is on or after the first day of
\* the month and whose end_date is on or before its last day
WithinMonth(u, month) ==
    {i \in 1..Len(budgets) :
        /\ budgets[i].user_id = u
        /\ budgets[i].start_date.day >= Calendar[month].first
        /\ budgets[i].end_date.day <= Calendar[month].last}

\* C17: a usage read of user u for a month returns one report for each of
\* u's budgets whose range lies within the month, and no other report.
C17_UsageReports ==
    [][\A u \in Users :
          (response'.view = "usage_of_budget" /\ usage_of_budget("March", u))
             => /\ response'.status = "success"
                /\ Len(response'.data) = Cardinality(WithinMonth(u, "March"))
                /\ \A i \in WithinMonth(u, "March") :
                      \E k \in 1..Len(response'.data) :
                         response'.data[k].amount = budgets[i].amount]_vars

\* C18: when the process has exited on a shutdown signal, no consumer was
\* left with a message it had taken and matched to a budget but whose ledger
\* change it had not committed.
C18_ShutdownWaitsForInFlight ==
    \A w \in Workers :
        wpc[w] = "exit" => ~(wlocal[w] # NoLocals /\ wlocal[w].budget # 0)

\* the three namespaces of the cache, in the order load_categories fills them
Namespaces == <<"income_categories", "expense_categories", "expense_sub_categories">>

\* the ids a lookup is made with: every id of the store, and one beyond
LookupIds == 1..(MaxCategories + 1)

\* the response is a recent-list page with at least one row
IsRecentList ==
    /\ "view" \in DOMAIN response
    /\ response.view = "recent_list"
    /\ response.status = "success"

\* C19 as stated: after a startup whose load failed at any of its queries,
\* all three mappings are empty.
C19_CacheEmptyOnAnyFailure ==
    (startup.done /\ startup.failed_query # 0) => cache_categories = EmptyCache

\* C19: startup completes whichever query of the load fails; the mapping whose
\* query failed and the mappings after it are empty, the mappings loaded before
\* the failure keep their names (so all three are empty when the store is
\* unavailable from the first query on); and a lookup of an id that is not in
\* a mapping returns None.
C19_CacheAfterFailedLoad ==
    startup.done =>
       /\ \A k \in 1..3 :
             (startup.failed_query # 0 /\ k >= startup.failed_query)
                => cache_categories[Namespaces[k]] = <<>>
       /\ startup.failed_query = 1 => cache_categories = EmptyCache
       /\ startup.failed_query \in {2, 3}
             => cache_categories.income_categories = categories.income_categories
       /\ startup.failed_query = 3 => cache_categories.expense_categories # <<>>
       /\ \A k \in 1..3, id \in LookupIds :
             id \notin DOMAIN cache_categories[Namespaces[k]]
                => DictGet(cache_categories[Namespaces[k]], id) = PyNone
       /\ ("view" \in DOMAIN response /\ response.view = "recent_list")
             => response.status = "success" \/ response.message = "No transactions records found."

C19_Witness ==
    /\ startup.done
    /\ startup.failed_query = 1
    /\ cache_categories = EmptyCache
    /\ IsRecentList
    /\ response.data[1].transaction_type_category = PyNone

\* C20: once the startup load has run, no step (a transaction or budget
\* operation, a reconciliation step, a status or list read, a category or
\* subcategory creation) changes any of the three cache mappings, and the id
\* of a category or subcategory created by the step is absent from the cache.
C20_NoWritePathAfterStartup ==
    [][startup.done =>
          /\ cache_categories' = cache_categories
          /\ \A id \in DOMAIN categories'.expense_categories
                         \ DOMAIN categories.expense_categories :
                id \notin DOMAIN cache_categories'.expense_categories
          /\ \A id \in DOMAIN categories'.expense_subcategories
                         \ DOMAIN categories.expense_subcategories :
                id \notin DOMAIN cache_categories'.expense_sub_categories]_vars

C20_Witness ==
    /\ startup.done
    /\ startup.failed_query = 0
    /\ 3 \in DOMAIN categories.expense_categories
    /\ 3 \notin DOMAIN cache_categories.expense_categories
    /\ budgets # <<>>
    /\ offset >= 1
    /\ IsRecentList
    /\ response.data[1].transaction_type_id = 2
    /\ response.data[1].transaction_type_category_id = 3
    /\ response.data[1].transaction_type_category = PyNone

\* the row of the transactions table a create with body `data` by user u adds
CreatedRow(data, u) ==
    [id |-> Len(transactions) + 1,
     user_id |-> u,
     transaction_type_id |-> data.transaction_type_id,
     transaction_type_category_id |-> data.transaction_type_category_id,
     transaction_type_subcategory_id |-> data.transaction_type_subcategory_id,
     amount |-> data.amount,
     description |-> data.description,
     transaction_date |-> data.transaction_date]

\* C21: every create_transaction adds exactly one row to the transactions
\* table, owned by the given user and holding the submitted type, category,
\* subcategory, amount, description and date, and returns the id the store
\* gave the row.
C21_CreatePersistsAndReturnsId ==
    [][\A data \in WriteTransactionData, u \in Users, up \in BOOLEAN :
          create_transaction(data, u, up)
             => /\ transactions' = Append(transactions, CreatedRow(data, u))
                /\ response'.status = "success"
                /\ response'.id = transactions'[Len(transactions')].id]_vars

\* the password the user of row i signed up with
SignedUpWith(i) == users[i].password.checksum[2]

\* the rows of the users table with this email
UsersWithEmail(email) == {i \in 1..Len(users) : users[i].email = email}

\* C22: authenticate_user returns (False, "Email not found or incorrect.")
\* when no user has the email, (False, "Incorrect password.") when the user
\* exists and the password is not the one whose hash is stored, and the user
\* with "User authenticated." when it is; so a user is returned only for an
\* existing email with its right password.
C22_AuthenticateUser ==
    \A email \in Emails, requested_password \in Passwords :
        LET result == authenticate_user(email, requested_password)
        IN /\ UsersWithEmail(email) = {}
                => result = [user |-> 0, message |-> "Email not found or incorrect."]
           /\ \A i \in UsersWithEmail(email) :
                 /\ requested_password # SignedUpWith(i)
                       => result = [user |-> 0, message |-> "Incorrect password."]
                 /\ requested_password = SignedUpWith(i)
                       => result = [user |-> i, message |-> "User authenticated."]
           /\ result.user # 0
                 => /\ result.user \in UsersWithEmail(email)
                    /\ requested_password = SignedUpWith(result.user)

C22_Witness ==
    /\ Len(users) = 2
    /\ SignedUpWith(1) # SignedUpWith(2)
    /\ "view" \in DOMAIN response
    /\ response.view = "login"
    /\ response.status = "error"
    /\ response.message = "Incorrect password."

\* C23: every budget has at most one ledger row referencing it.
C23_OneLedgerRowPerBudget ==
    \A b \in 1..Len(budgets) : Cardinality(LedgerRows(b)) <= 1

\* C24: for a budget that specifies a subcategory, every ledger row
\* check_budget_expense may return belongs to the budget and has the budget's
\* subcategory as its own.
C24_LookupHonoursSubcategory ==
    \A b \in 1..Len(budgets) :
        budgets[b].transaction_type_subcategory_id # 0 =>
            \A k \in check_budget_expense(budgets[b]) :
                /\ budget_expenses[k].budget_id = budgets[b].id
                /\ budget_expenses[k].transaction_type_subcategory_id
                     = budgets[b].transaction_type_subcategory_id

\* the event of a stored transaction row: its eight columns, the date in
\* ISO-8601 text
EventOf(row) ==
    [id |-> row.id,
     user_id |-> row.user_id,
     transaction_type_id |-> row.transaction_type_id,
     transaction_type_category_id |-> row.transaction_type_category_id,
     transaction_type_subcategory_id |-> row.transaction_type_subcategory_id,
     amount |-> row.amount,
     description |-> row.description,
     transaction_date |-> isoformat(row.transaction_date)]

AtTimeOfDay(m, tod) ==
    [m EXCEPT !.transaction_date = isoformat(DT(ToTimestamp(m.transaction_date).day, tod))]

\* C26: the budgets check_budget may return for a published transaction are
\* the same for that transaction at any other time of the same calendar day.
C26_TimeOfDayNotSignificant ==
    \A i \in 1..Len(topic) :
        CanBuildTransaction(topic[i]) =>
            \A tod \in TimesOfDay :
                check_budget(AtTimeOfDay(topic[i], tod)) = check_budget(topic[i])

\* the response r is the answer of the view named v
AnsweredBy(r, v) == "view" \in DOMAIN r /\ r.view = v

\* the budgets of user u
BudgetsOf(u) == {i \in 1..Len(budgets) : budgets[i].user_id = u}

\* the report is the one of budget i: its amount and what its ledger holds
ReportOf(report, i) ==
    /\ report.amount = budgets[i].amount
    /\ report.amount_spent \in
          {budget_expenses[k].amount_spent : k \in LedgerRows(i)}
             \cup (IF LedgerRows(i) = {} THEN {0} ELSE {})

\* C27: processing the event of a transaction of user A leaves every ledger
\* row of a budget of another user as it was and creates rows only for
\* budgets of A; a status read by user A answers a report only for a budget
\* of A, with that budget's amount and ledger; a usage read by A answers only
\* reports of budgets of A.
C27_OwnerIsolation ==
    [][/\ ConsumeStep =>
             /\ \A k \in 1..Len(budget_expenses) :
                   budgets[budget_expenses[k].budget_id].user_id # topic[offset + 1].user_id
                      => budget_expenses'[k] = budget_expenses[k]
             /\ \A k \in (Len(budget_expenses) + 1)..Len(budget_expenses') :
                   budgets[budget_expenses'[k].budget_id].user_id
                      = topic[offset + 1].user_id
       /\ \A u \in Users, budget_id \in 1..2 :
             (/\ AnsweredBy(response', "status_of_budget")
              /\ status_of_budget(budget_id, u)
              /\ response'.status = "success")
                => /\ budget_id \in BudgetsOf(u)
                   /\ ReportOf(response'.data, budget_id)
       /\ \A u \in Users :
             (/\ AnsweredBy(response', "usage_of_budget")
              /\ usage_of_budget("March", u)
              /\ response'.status = "success")
                => \A n \in 1..Len(response'.data) :
                      \E i \in BudgetsOf(u) : ReportOf(response'.data[n], i)]_vars

C27_Witness ==
    /\ budgets[1].user_id # budgets[2].user_id
    /\ budgets[1].transaction_type_category_id = budgets[2].transaction_type_category_id
    /\ offset = 1
    /\ last.budget # 0
    /\ Len(budget_expenses) = 2
    /\ "view" \in DOMAIN response
    /\ response.view = "usage_of_budget"
    /\ response.status = "success"
    /\ Len(response.data) = 1

\* C28: processing the event of an Income transaction (transaction_type_id
\* 1) leaves the ledger table as it was: no row created, no amount changed.
C28_IncomeLeavesLedger ==
    [][(ConsumeStep /\ topic[offset + 1].transaction_type_id = 1)
          => budget_expenses' = budget_expenses]_vars

LedgerState(rows) ==
    {<<rows[k].budget_id, rows[k].amount_spent>> : k \in 1..Len(rows)}

\* C30: from every state the single worker reaches, processing the events
\* still to come in any order ends in the same ledger state (the same rows
\* per budget with the same amount_spent) as processing them in topic order.
C30_OrderIndependent ==
    \A ord \in Orders((offset + 1)..Len(topic)) :
        LedgerState(Reconcile(budget_expenses,
                              [k \in 1..(Len(topic) - offset) |-> topic[ord[k]]]))
          = LedgerState(Reconcile(budget_expenses,
                                  [k \in 1..(Len(topic) - offset) |-> topic[offset + k]]))

====
